---------------------------- MODULE Spec2Model ----------------------------
(***************************************************************************)
(* Batch-size reconciliation (vision/cnns/tensorflow2/batch_config.py).    *)
(*                                                                         *)
(* A BatchConfig is constructed once from micro_batch_size, num_replicas   *)
(* and one of gradient_accumulation_count / global_batch_size; its         *)
(* __post_init__ resolves the missing quantity.  The three query methods   *)
(* are then called on the constructed object.                              *)
(*                                                                         *)
(* Optional[int] values are encoded as sequences: None is << >> and the    *)
(* integer n is << n >>.                                                   *)
(*                                                                         *)
(* The other parts of the repository are modelled by their own variables   *)
(* and specifications in the same module:                                  *)
(*   SpecGPT      GPTConfig.gradient_accumulation (nlp/gpt3_2.7B config)   *)
(*   SpecData     Datasets.data.reconfigure_dataset_constants              *)
(*   SpecDefaults Datasets.data.set_defaults                               *)
(*   SpecStartup  the option checks of train.py __main__                   *)
(*   SpecStep     the iterations_per_step computation of _train_process    *)
(*   SpecTrain    restore, checkpointing and the loop of _train_process    *)
(*   SpecPipeline basic_pipelined_training_step: the stages' label tensors *)
(*   SpecScaling  set_training_defaults: loss-scaling compensation         *)
(*   SpecArgs     args_from_params of the conformer tests                  *)
(* A specification leaves the variables of the other parts idle.           *)
(***************************************************************************)
EXTENDS Integers, Sequences, FiniteSets, TLC

VARIABLES
    pc,                                   \* "start", "constructed" or "raised"
    init_args,                            \* the arguments the constructor was called with
    micro_batch_size,                     \* fields of the object bound by the caller
    num_replicas,
    gradient_accumulation_count,
    global_batch_size,
    num_micro_batches_per_weight_update,
    exception,                            \* exception that left the constructor
    warnings,                             \* number of logging.warning records emitted
    call,                                 \* the last method call and its outcome
    gpt,                                  \* GPTConfig fields and the last property read
    DATASET_CONSTANTS,                    \* Datasets.data module-level dictionary
    data_call,                            \* last reconfigure_dataset_constants call
    opts,                                 \* options dictionary given to data.set_defaults
    set_defaults_result,                  \* how data.set_defaults ended
    main,                                 \* train.py __main__: options and progress
    calc,                                 \* iterations_per_step computation
    train_opts,                           \* options read by _train_process
    logs_dir,                             \* checkpoint files in opts['logs_path']
    worker,                               \* per-instance state of _train_process
    pipe,                                 \* tensors passed between the pipeline stages
    training,                             \* options dictionary given to set_training_defaults
    parsed                                \* args_from_params call and its namespace

batch_vars == << pc, init_args, micro_batch_size, num_replicas,
                 gradient_accumulation_count, global_batch_size,
                 num_micro_batches_per_weight_update, exception, warnings, call >>

gpt_vars == << gpt >>

data_vars == << DATASET_CONSTANTS, data_call >>

defaults_vars == << opts, set_defaults_result >>

startup_vars == << main >>

step_vars == << calc >>

train_vars == << train_opts, logs_dir, worker >>

pipeline_vars == << pipe >>

scaling_vars == << training >>

args_vars == << parsed >>

vars == << batch_vars, gpt_vars, data_vars, defaults_vars, startup_vars,
           step_vars, train_vars, pipeline_vars, scaling_vars, args_vars >>

Idle == << >>

BatchIdle ==
    /\ pc = "idle" /\ init_args = Idle
    /\ micro_batch_size = Idle /\ num_replicas = Idle
    /\ gradient_accumulation_count = Idle /\ global_batch_size = Idle
    /\ num_micro_batches_per_weight_update = Idle
    /\ exception = "NoException" /\ warnings = 0 /\ call = Idle

GptIdle == gpt = Idle

DataIdle == DATASET_CONSTANTS = Idle /\ data_call = Idle

DefaultsIdle == opts = Idle /\ set_defaults_result = Idle

StartupIdle == main = Idle

StepIdle == calc = Idle

TrainIdle == train_opts = Idle /\ logs_dir = Idle /\ worker = Idle

PipelineIdle == pipe = Idle

ScalingIdle == training = Idle

ArgsIdle == parsed = Idle

fields == << micro_batch_size, num_replicas, gradient_accumulation_count,
             global_batch_size, num_micro_batches_per_weight_update >>

---------------------------------------------------------------------------
(* Bounds of the model *)

MaxMicroBatchSize == 4
MaxReplicas == 2
MaxAccumulation == 3
MaxGlobalBatchSize == 33
MaxDatasetSize == 8
MaxInstances == 3
MaxLogFreq == 12
MaxDeviceIterations == 8
MaxSmallPercent == 3
MaxShards == 2
MaxWorkerIndex == 1
MaxEpochs == 2
MaxIterationsPerEpoch == 5
MaxRestoredStep == 10
MaxLabelValue == 2
MaxStages == 3
MaxLossScaling == 4
MaxArgSize == 12

None == << >>
Some(n) == << n >>
Val(x) == x[1]

Optional(S) == {None} \cup {Some(n) : n \in S}

MicroBatchSizeInputs == (0 - 1) .. MaxMicroBatchSize
ReplicaInputs == (0 - 1) .. MaxReplicas
AccumulationInputs == Optional((0 - 1) .. MaxAccumulation)
GlobalBatchSizeInputs == Optional((0 - 1) .. MaxGlobalBatchSize)
DatasetSizeInputs == 0 .. MaxDatasetSize
InstanceInputs == 0 .. MaxInstances

---------------------------------------------------------------------------
(* Python integer arithmetic *)

\* a // b for b # 0: floor division
PyFloorDiv(a, b) == a \div b

\* a % b for b # 0: the remainder has the sign of the divisor
PyMod(a, b) == a - b * (a \div b)

\* int(num / den) for den > 0 when den divides num
PyIntExact(num, den) == num \div den

\* int(round(num / den)) for den > 0: nearest integer, ties to the even one.
\* The source divides in floating point (gbs / mbs / nr); for the magnitudes
\* modelled a tie k + 1/2 is represented exactly and every other quotient is
\* further from a tie than the rounding error, so the rational quotient
\* num / den decides the same way.
PyRound(num, den) ==
    LET f == num \div den
        r == num - den * f
    IN  IF 2 * r < den THEN f
        ELSE IF 2 * r > den THEN f + 1
        ELSE IF f % 2 = 0 THEN f ELSE f + 1

---------------------------------------------------------------------------
(* BatchConfig.__post_init__ *)

AssertMicroBatchSize(mbs) == mbs > 0

AssertNumReplicas(nr) == nr > 0

\* mutation: the both-supplied check is missing
BothSupplied_Missing(gac, gbs) == FALSE

BothSupplied(gac, gbs) == ~(gac = None \/ gbs = None)

NeitherSupplied(gac, gbs) == gac = None /\ gbs = None

\* mutation: off-by-one comparison, zero is accepted
AssertAccumulationCount_NonNegative(gac) == gac >= 0

AssertAccumulationCount(gac) == gac > 0

AssertGlobalBatchSize(gbs) == gbs > 0

\* mutation: the replica count is left out of the product
GlobalFromAccumulation_NoReplicas(mbs, nr, gac) == mbs * gac

GlobalFromAccumulation(mbs, nr, gac) == mbs * nr * gac

IsDivisible(gbs, mbs, nr) == PyMod(gbs, mbs * nr) = 0

\* mutation: the division by the replica count is left out
AccumulationExact_NoReplicas(gbs, mbs, nr) == PyIntExact(gbs, mbs)

AccumulationExact(gbs, mbs, nr) == PyIntExact(gbs, mbs * nr)

\* mutation: int() truncates the quotient, round() is left out
AccumulationRounded_Truncated(gbs, mbs, nr) == gbs \div (mbs * nr)

AccumulationRounded(gbs, mbs, nr) == PyRound(gbs, mbs * nr)

\* mutation: the recomputed product leaves out the replica count
GlobalRecomputed_NoReplicas(mbs, nr, gac) == mbs * gac

GlobalRecomputed(mbs, nr, gac) == mbs * nr * gac

\* mutation: the replica count is left out
WeightUpdateMicroBatches_NoReplicas(gac, nr) == gac

WeightUpdateMicroBatches(gac, nr) == gac * nr

Raised(exc) ==
    [ exc |-> exc, gradient_accumulation_count |-> None,
      global_batch_size |-> None,
      num_micro_batches_per_weight_update |-> None, warnings |-> 0 ]

Resolved(gac, gbs, nr, warned) ==
    [ exc |-> "NoException", gradient_accumulation_count |-> Some(gac),
      global_batch_size |-> Some(gbs),
      num_micro_batches_per_weight_update |-> Some(WeightUpdateMicroBatches(gac, nr)),
      warnings |-> warned ]

\* gac and gbs are Optional; the result is the outcome of __post_init__
PostInit(mbs, nr, gac, gbs) ==
    IF ~AssertMicroBatchSize(mbs) THEN Raised("AssertionError")
    ELSE IF ~AssertNumReplicas(nr) THEN Raised("AssertionError")
    ELSE IF BothSupplied(gac, gbs) THEN Raised("ValueError")
    ELSE IF NeitherSupplied(gac, gbs) THEN Raised("ValueError")
    ELSE IF gac # None THEN
        IF ~AssertAccumulationCount(Val(gac)) THEN Raised("AssertionError")
        ELSE Resolved(Val(gac), GlobalFromAccumulation(mbs, nr, Val(gac)), nr, 0)
    ELSE
        IF ~AssertGlobalBatchSize(Val(gbs)) THEN Raised("AssertionError")
        ELSE IF IsDivisible(Val(gbs), mbs, nr)
             THEN Resolved(AccumulationExact(Val(gbs), mbs, nr), Val(gbs), nr, 0)
             ELSE LET rounded == AccumulationRounded(Val(gbs), mbs, nr)
                  IN  Resolved(rounded, GlobalRecomputed(mbs, nr, rounded), nr, 1)

---------------------------------------------------------------------------
(* Query methods: each returns [exc, ret] *)

Returned(v) == [ exc |-> "NoException", ret |-> Some(v) ]

Threw(exc) == [ exc |-> exc, ret |-> None ]

get_num_micro_batches_per_epoch(dataset_size) ==
    LET nmb == Val(num_micro_batches_per_weight_update)
        divisor == Val(micro_batch_size) * nmb
    IN  IF divisor = 0 THEN Threw("ZeroDivisionError")
        ELSE Returned(PyFloorDiv(dataset_size, divisor) * nmb)

\* mutation: the global batch is not split across the instances
InstanceBatchSize_Whole(num_instances) == Val(global_batch_size)

InstanceBatchSize(num_instances) == PyFloorDiv(Val(global_batch_size), num_instances)

get_num_discarded_samples(dataset_size, num_instances) ==
    IF num_instances = 0 THEN Threw("ZeroDivisionError")
    ELSE IF InstanceBatchSize(num_instances) = 0 THEN Threw("ZeroDivisionError")
    ELSE Returned(PyMod(dataset_size, InstanceBatchSize(num_instances)))

\* mutation: the early return for no discarded samples is missing
get_num_padding_samples_NoEarlyReturn(num_discarded_samples, num_instances) ==
    IF num_instances = 0 THEN Threw("ZeroDivisionError")
    ELSE Returned(InstanceBatchSize(num_instances) - num_discarded_samples)

get_num_padding_samples(num_discarded_samples, num_instances) ==
    IF num_discarded_samples = 0 THEN Returned(0)
    ELSE IF num_instances = 0 THEN Threw("ZeroDivisionError")
    ELSE Returned(InstanceBatchSize(num_instances) - num_discarded_samples)

\* mutation: the dataclass is declared without frozen=True
Frozen_NotDeclared == FALSE

\* @dataclass(frozen=True): attribute assignment raises FrozenInstanceError
Frozen == TRUE

FieldNames ==
    { "micro_batch_size", "num_replicas", "gradient_accumulation_count",
      "global_batch_size", "num_micro_batches_per_weight_update" }

\* the value of field `name` after the statement  config.<field> = value
AfterSetAttr(name, field, value, current) ==
    IF ~Frozen /\ name = field THEN Some(value) ELSE current

NoCall == [ op |-> "none", args |-> << >>, exc |-> "NoException", ret |-> None ]

---------------------------------------------------------------------------
(* State machine *)

Init ==
    /\ pc = "start"
    /\ init_args = << >>
    /\ micro_batch_size = None
    /\ num_replicas = None
    /\ gradient_accumulation_count = None
    /\ global_batch_size = None
    /\ num_micro_batches_per_weight_update = None
    /\ exception = "NoException"
    /\ warnings = 0
    /\ call = NoCall
    /\ GptIdle /\ DataIdle /\ DefaultsIdle /\ StartupIdle /\ StepIdle /\ TrainIdle
    /\ PipelineIdle /\ ScalingIdle /\ ArgsIdle

\* BatchConfig(micro_batch_size=mbs, num_replicas=nr,
\*             gradient_accumulation_count=gac, global_batch_size=gbs)
Construct ==
    /\ pc = "start"
    /\ \E mbs \in MicroBatchSizeInputs, nr \in ReplicaInputs,
          gac \in AccumulationInputs, gbs \in GlobalBatchSizeInputs :
          LET out == PostInit(mbs, nr, gac, gbs)
              ok == out.exc = "NoException"
          IN  /\ init_args' = [ micro_batch_size |-> mbs, num_replicas |-> nr,
                                gradient_accumulation_count |-> gac,
                                global_batch_size |-> gbs ]
              /\ pc' = IF ok THEN "constructed" ELSE "raised"
              /\ exception' = out.exc
              /\ warnings' = out.warnings
              /\ micro_batch_size' = IF ok THEN Some(mbs) ELSE None
              /\ num_replicas' = IF ok THEN Some(nr) ELSE None
              /\ gradient_accumulation_count' = out.gradient_accumulation_count
              /\ global_batch_size' = out.global_batch_size
              /\ num_micro_batches_per_weight_update' =
                     out.num_micro_batches_per_weight_update
    /\ UNCHANGED call
    /\ UNCHANGED << gpt_vars, data_vars, defaults_vars, startup_vars, step_vars,
                    train_vars, pipeline_vars, scaling_vars, args_vars >>

CallGetNumMicroBatchesPerEpoch ==
    /\ pc = "constructed"
    /\ \E ds \in DatasetSizeInputs :
          LET out == get_num_micro_batches_per_epoch(ds)
          IN  call' = [ op |-> "get_num_micro_batches_per_epoch", args |-> << ds >>,
                        exc |-> out.exc, ret |-> out.ret ]
    /\ UNCHANGED << pc, init_args, fields, exception, warnings >>
    /\ UNCHANGED << gpt_vars, data_vars, defaults_vars, startup_vars, step_vars,
                    train_vars, pipeline_vars, scaling_vars, args_vars >>

CallGetNumDiscardedSamples ==
    /\ pc = "constructed"
    /\ \E ds \in DatasetSizeInputs, ni \in InstanceInputs :
          LET out == get_num_discarded_samples(ds, ni)
          IN  call' = [ op |-> "get_num_discarded_samples", args |-> << ds, ni >>,
                        exc |-> out.exc, ret |-> out.ret ]
    /\ UNCHANGED << pc, init_args, fields, exception, warnings >>
    /\ UNCHANGED << gpt_vars, data_vars, defaults_vars, startup_vars, step_vars,
                    train_vars, pipeline_vars, scaling_vars, args_vars >>

CallGetNumPaddingSamples ==
    /\ pc = "constructed"
    /\ \E nd \in DatasetSizeInputs, ni \in InstanceInputs :
          LET out == get_num_padding_samples(nd, ni)
          IN  call' = [ op |-> "get_num_padding_samples", args |-> << nd, ni >>,
                        exc |-> out.exc, ret |-> out.ret ]
    /\ UNCHANGED << pc, init_args, fields, exception, warnings >>
    /\ UNCHANGED << gpt_vars, data_vars, defaults_vars, startup_vars, step_vars,
                    train_vars, pipeline_vars, scaling_vars, args_vars >>

\* d = get_num_discarded_samples(dataset_size, num_instances) followed by
\* p = get_num_padding_samples(d, num_instances); ret is << d, p >>
CallGetNumDiscardedThenPadding ==
    /\ pc = "constructed"
    /\ \E ds \in DatasetSizeInputs, ni \in InstanceInputs :
          LET d == get_num_discarded_samples(ds, ni)
              p == get_num_padding_samples(Val(d.ret), ni)
          IN  call' = [ op |-> "get_num_discarded_then_padding",
                        args |-> << ds, ni >>,
                        exc |-> IF d.exc # "NoException" THEN d.exc ELSE p.exc,
                        ret |-> IF d.exc # "NoException" \/ p.exc # "NoException"
                                THEN None ELSE << Val(d.ret), Val(p.ret) >> ]
    /\ UNCHANGED << pc, init_args, fields, exception, warnings >>
    /\ UNCHANGED << gpt_vars, data_vars, defaults_vars, startup_vars, step_vars,
                    train_vars, pipeline_vars, scaling_vars, args_vars >>

\* config.<field> = value, attempted by a holder of the constructed object
CallSetAttr ==
    /\ pc = "constructed"
    /\ \E f \in FieldNames, v \in {0, 1} :
          /\ call' = [ op |-> "__setattr__", args |-> << f, v >>,
                       exc |-> IF Frozen THEN "FrozenInstanceError" ELSE "NoException",
                       ret |-> None ]
          /\ micro_batch_size' = AfterSetAttr("micro_batch_size", f, v, micro_batch_size)
          /\ num_replicas' = AfterSetAttr("num_replicas", f, v, num_replicas)
          /\ gradient_accumulation_count' =
                 AfterSetAttr("gradient_accumulation_count", f, v,
                              gradient_accumulation_count)
          /\ global_batch_size' =
                 AfterSetAttr("global_batch_size", f, v, global_batch_size)
          /\ num_micro_batches_per_weight_update' =
                 AfterSetAttr("num_micro_batches_per_weight_update", f, v,
                              num_micro_batches_per_weight_update)
    /\ UNCHANGED << pc, init_args, exception, warnings >>
    /\ UNCHANGED << gpt_vars, data_vars, defaults_vars, startup_vars, step_vars,
                    train_vars, pipeline_vars, scaling_vars, args_vars >>

Next ==
    \/ Construct
    \/ CallSetAttr
    \/ CallGetNumMicroBatchesPerEpoch
    \/ CallGetNumDiscardedSamples
    \/ CallGetNumPaddingSamples
    \/ CallGetNumDiscardedThenPadding

Spec == Init /\ [][Next]_vars

TypeOK ==
    /\ pc \in {"start", "constructed", "raised"}
    /\ exception \in {"NoException", "ValueError", "AssertionError"}
    /\ warnings \in {0, 1}
    /\ pc = "constructed" =>
          /\ exception = "NoException"
          /\ \A f \in {micro_batch_size, num_replicas, gradient_accumulation_count,
                       global_batch_size, num_micro_batches_per_weight_update} :
                Len(f) = 1 /\ Val(f) \in Int
    /\ pc # "constructed" =>
          \A f \in {micro_batch_size, num_replicas, gradient_accumulation_count,
                    global_batch_size, num_micro_batches_per_weight_update} : f = None

---------------------------------------------------------------------------
(* GPTConfig.gradient_accumulation (nlp/gpt3_2.7B/popxl/config/config.py) *)

\* mutation: the divisibility check is missing, the quotient is floored
gradient_accumulation_Floored(gbs, data_parallel, mbs) ==
    Returned(PyFloorDiv(gbs, data_parallel * mbs))

\* the property read on a config with training.global_batch_size = gbs,
\* execution.data_parallel and execution.micro_batch_size = mbs
gradient_accumulation(gbs, data_parallel, mbs) ==
    LET denom == data_parallel * mbs
    IN  IF PyMod(gbs, denom) # 0 THEN Threw("RuntimeError")
        ELSE Returned(PyFloorDiv(gbs, denom))

GptInit ==
    /\ gpt \in [ pc : {"configured"},
                 global_batch_size : 1 .. MaxGlobalBatchSize,
                 data_parallel : 1 .. MaxReplicas,
                 micro_batch_size : 1 .. MaxMicroBatchSize,
                 exc : {"NoException"}, ret : {None} ]
    /\ BatchIdle /\ DataIdle /\ DefaultsIdle /\ StartupIdle /\ StepIdle /\ TrainIdle
    /\ PipelineIdle /\ ScalingIdle /\ ArgsIdle

ReadGradientAccumulation ==
    /\ gpt.pc = "configured"
    /\ LET out == gradient_accumulation(gpt.global_batch_size, gpt.data_parallel,
                                        gpt.micro_batch_size)
       IN  gpt' = [ gpt EXCEPT !.pc = "read", !.exc = out.exc, !.ret = out.ret ]
    /\ UNCHANGED << batch_vars, data_vars, defaults_vars, startup_vars, step_vars,
                    train_vars, pipeline_vars, scaling_vars, args_vars >>

GptNext == ReadGradientAccumulation

SpecGPT == GptInit /\ [][GptNext]_vars

---------------------------------------------------------------------------
(* _train_process: iterations_per_step (vision/cnns/tensorflow1/training/train.py) *)

\* log_freq and device_iterations are integers, device_iterations >= 1;
\* int(round(log_freq / device_iterations)) rounds ties to the even integer
IterationsPerStep(log_freq, device_iterations) ==
    IF log_freq < device_iterations THEN log_freq
    ELSE PyFloorDiv(log_freq, PyRound(log_freq, device_iterations))

StepInit ==
    /\ calc \in [ pc : {"options"},
                  log_freq : 0 .. MaxLogFreq,
                  device_iterations : 1 .. MaxDeviceIterations,
                  iterations_per_step : {None} ]
    /\ BatchIdle /\ GptIdle /\ DataIdle /\ DefaultsIdle /\ StartupIdle /\ TrainIdle
    /\ PipelineIdle /\ ScalingIdle /\ ArgsIdle

ComputeIterationsPerStep ==
    /\ calc.pc = "options"
    /\ calc' = [ calc EXCEPT
                   !.pc = "computed",
                   !.iterations_per_step =
                       Some(IterationsPerStep(calc.log_freq, calc.device_iterations)) ]
    /\ UNCHANGED << batch_vars, gpt_vars, data_vars, defaults_vars, startup_vars,
                    train_vars, pipeline_vars, scaling_vars, args_vars >>

StepNext == ComputeIterationsPerStep

SpecStep == StepInit /\ [][StepNext]_vars

---------------------------------------------------------------------------
(* Datasets.data.set_defaults (vision/cnns/tensorflow1/training/Datasets/data.py) *)
(*                                                                         *)
(* A directory path is [name, slash]: name tells which dataset words the   *)
(* lower-cased path contains, slash whether it ends in a separator.        *)
(* cutmix_lambda and mixup_alpha are in hundredths.  The file system and   *)
(* the environment are inputs: env.DATA_DIR, env.first_file_exists (the    *)
(* first training file is directly under data_dir) and env.found_subdir    *)
(* (os.walk finds it in the dataset's default sub-directory).              *)

PathNames == { "imagenet", "cifar100", "cifar-100", "cifar", "other" }

Paths ==
    [ name : PathNames, slash : {FALSE} ] \cup [ name : {"imagenet"}, slash : {TRUE} ]

Datasets == { "imagenet", "cifar-10", "cifar-100" }

\* os.path.normpath on these paths: the trailing separator is dropped
normpath(path) == [ path EXCEPT !.slash = FALSE ]

\* the sub-directory os.walk returns
SubDirectory(path, default_dir) == [ name |-> default_dir, slash |-> FALSE ]

DefaultDir(dataset) ==
    CASE dataset = "cifar-100" -> "cifar-100-binary"
      [] dataset = "cifar-10" -> "cifar-10-batches-bin"
      [] dataset = "imagenet" -> "imagenet-data"

\* the dataset inferred from the lower-cased data_dir, None when there is none
InferDataset(path) ==
    IF path.name = "imagenet" THEN Some("imagenet")
    ELSE IF path.name \in {"cifar100", "cifar-100"} THEN Some("cifar-100")
    ELSE IF path.name = "cifar" THEN Some("cifar-10")
    ELSE None

FusedRequiresImagenet(o) ==
    IF o.fused_preprocessing /\ o.dataset # Some("imagenet")
    THEN [ o EXCEPT !.fused_preprocessing = FALSE ] ELSE o

\* mutation: the fused-preprocessing check leaves hostside_norm alone
FusedDisablesHostNorm_Missing(o) == o

FusedDisablesHostNorm(o) ==
    IF o.fused_preprocessing /\ o.hostside_norm
    THEN [ o EXCEPT !.hostside_norm = FALSE ] ELSE o

EightBitDisablesHostNorm(o) ==
    IF o.hostside_norm /\ o.eight_bit_io
    THEN [ o EXCEPT !.hostside_norm = FALSE ] ELSE o

\* lines 490-537: [exc, opts]
ResolveData(o, env) ==
    IF o.generated_data \/ o.synthetic_data THEN
        LET o1 == [ o EXCEPT !.cutmix_lambda = 100, !.mixup_alpha = 0 ]
        IN  IF o1.dataset = None THEN [ exc |-> "ValueError", opts |-> o1 ]
            ELSE [ exc |-> "NoException", opts |-> o1 ]
    ELSE
        IF o.data_dir = None /\ env.DATA_DIR = None
        THEN [ exc |-> "OSError", opts |-> o ]
        ELSE
            LET o1 == IF o.data_dir = None THEN [ o EXCEPT !.data_dir = env.DATA_DIR ]
                      ELSE o
                inferred == InferDataset(Val(o1.data_dir))
            IN  IF o1.dataset = None /\ inferred = None
                THEN [ exc |-> "ValueError", opts |-> o1 ]
                ELSE
                    LET o2 == IF o1.dataset = None
                              THEN [ o1 EXCEPT !.dataset = inferred ] ELSE o1
                    IN  IF env.first_file_exists
                        THEN [ exc |-> "NoException", opts |-> o2 ]
                        ELSE IF ~env.found_subdir
                        THEN [ exc |-> "ValueError", opts |-> o2 ]
                        ELSE [ exc |-> "NoException",
                               opts |-> [ o2 EXCEPT !.data_dir =
                                   Some(SubDirectory(Val(o2.data_dir),
                                                     DefaultDir(Val(o2.dataset)))) ] ]

\* lines 539-556
FinishDefaults(o) ==
    LET o1 == IF o.synthetic_data /\ o.latency THEN [ o EXCEPT !.latency = FALSE ] ELSE o
        o2 == [ o1 EXCEPT !.summary_str = Append(@, Val(o1.dataset)) ]
        o3 == IF o2.data_dir # None
              THEN [ o2 EXCEPT !.data_dir = Some(normpath(Val(o2.data_dir))) ] ELSE o2
        o4 == IF o3.pipeline_num_parallel = 0
              THEN [ o3 EXCEPT !.pipeline_num_parallel = 48 ]
              ELSE [ o3 EXCEPT !.summary_str = Append(@, "Pipeline Num Parallel") ]
        o5 == IF o4.generated_data
              THEN [ o4 EXCEPT !.summary_str = Append(@, "Generated random Data") ] ELSE o4
    IN  IF o5.synthetic_data
        THEN [ o5 EXCEPT !.summary_str = Append(@, "Synthetic Data") ] ELSE o5

set_defaults(o, env) ==
    LET o3 == EightBitDisablesHostNorm(FusedDisablesHostNorm(FusedRequiresImagenet(o)))
        resolved == ResolveData(o3, env)
    IN  IF resolved.exc # "NoException" THEN resolved
        ELSE [ exc |-> "NoException", opts |-> FinishDefaults(resolved.opts) ]

DefaultsInit ==
    /\ opts \in [ fused_preprocessing : BOOLEAN, hostside_norm : BOOLEAN,
                  eight_bit_io : BOOLEAN,
                  dataset : Optional(Datasets),
                  generated_data : BOOLEAN, synthetic_data : BOOLEAN,
                  cutmix_lambda : {50, 100}, mixup_alpha : {0, 20},
                  data_dir : Optional(Paths),
                  latency : BOOLEAN,
                  pipeline_num_parallel : {0, 16},
                  summary_str : { << >> } ]
    /\ set_defaults_result \in
           [ pc : {"parsed"}, exc : {"NoException"},
             env : [ DATA_DIR : Optional([ name : {"cifar"}, slash : {FALSE} ]),
                     first_file_exists : BOOLEAN, found_subdir : BOOLEAN ],
             given : {None} ]
    /\ BatchIdle /\ GptIdle /\ DataIdle /\ StartupIdle /\ StepIdle /\ TrainIdle
    /\ PipelineIdle /\ ScalingIdle /\ ArgsIdle

SetDefaults ==
    /\ set_defaults_result.pc = "parsed"
    /\ LET out == set_defaults(opts, set_defaults_result.env)
       IN  /\ opts' = out.opts
           /\ set_defaults_result' =
                  [ set_defaults_result EXCEPT
                      !.pc = IF out.exc = "NoException" THEN "returned" ELSE "raised",
                      !.exc = out.exc,
                      !.given = Some(opts) ]
    /\ UNCHANGED << batch_vars, gpt_vars, data_vars, startup_vars, step_vars,
                    train_vars, pipeline_vars, scaling_vars, args_vars >>

DefaultsNext == SetDefaults

SpecDefaults == DefaultsInit /\ [][DefaultsNext]_vars

---------------------------------------------------------------------------
(* Datasets.data.reconfigure_dataset_constants *)
(*                                                                         *)
(* A file list ['train-%05d-of-01024' % i for i in range(n)] is held as    *)
(* its length n.  UNSCALED_NUM_IMAGES is None while the key is absent.     *)

ImagenetNumImages == 1281167
ImagenetTrainFiles == 1024
ImagenetTestFiles == 128
CifarNumImages == 50000
Cifar10TrainFiles == 5

\* the module-level dictionary as the import leaves it
InitialDatasetConstants ==
    [ ds \in Datasets |->
        IF ds = "imagenet"
        THEN [ NUM_IMAGES |-> ImagenetNumImages, UNSCALED_NUM_IMAGES |-> None,
               TRAIN |-> ImagenetTrainFiles, TEST |-> ImagenetTestFiles ]
        ELSE [ NUM_IMAGES |-> CifarNumImages, UNSCALED_NUM_IMAGES |-> None,
               TRAIN |-> IF ds = "cifar-10" THEN Cifar10TrainFiles ELSE 1,
               TEST |-> 1 ] ]

\* --dataset-percentage-to-use: choices=range(1, 101); the values modelled
PercentInputs == (1 .. MaxSmallPercent) \cup ((100 - MaxSmallPercent) .. 100)

\* lines 68-70
WithUnscaled(constants) ==
    [ ds \in Datasets |->
        IF constants[ds].UNSCALED_NUM_IMAGES = None
        THEN [ constants[ds] EXCEPT !.UNSCALED_NUM_IMAGES = Some(constants[ds].NUM_IMAGES) ]
        ELSE constants[ds] ]

\* mutation: the guard against a repeated reduction is missing
AlreadyReduced_Unguarded(constants) == FALSE

\* line 73
AlreadyReduced(constants) ==
    ~(Val(constants["imagenet"].UNSCALED_NUM_IMAGES) = constants["imagenet"].NUM_IMAGES)

\* lines 77-96
Reduced(constants, pct) ==
    [ constants EXCEPT
        !["imagenet"].NUM_IMAGES = PyFloorDiv(pct * @, 100),
        !["imagenet"].TRAIN = PyFloorDiv(@ * pct, 100),
        !["imagenet"].TEST = PyFloorDiv(@ * pct, 100) ]

\* [constants, warned]: the dictionary after the call and whether it warned
reconfigure_dataset_constants(constants, dataset, pct) ==
    LET c1 == WithUnscaled(constants)
    IN  IF dataset = "imagenet" /\ pct < 100
        THEN IF AlreadyReduced(c1) THEN [ constants |-> c1, warned |-> TRUE ]
             ELSE [ constants |-> Reduced(c1, pct), warned |-> FALSE ]
        ELSE [ constants |-> c1, warned |-> FALSE ]

DataInit ==
    /\ DATASET_CONSTANTS = InitialDatasetConstants
    /\ data_call = [ calls |-> 0, dataset |-> "none", pct |-> 100, warned |-> FALSE ]
    /\ BatchIdle /\ GptIdle /\ DefaultsIdle /\ StartupIdle /\ StepIdle /\ TrainIdle
    /\ PipelineIdle /\ ScalingIdle /\ ArgsIdle

\* reconfigure_dataset_constants(opts); the model counts the first two calls
ReconfigureDatasetConstants ==
    /\ \E ds \in Datasets, pct \in PercentInputs :
          LET out == reconfigure_dataset_constants(DATASET_CONSTANTS, ds, pct)
          IN  /\ DATASET_CONSTANTS' = out.constants
              /\ data_call' = [ calls |-> IF data_call.calls < 2 THEN data_call.calls + 1
                                          ELSE data_call.calls,
                                dataset |-> ds, pct |-> pct, warned |-> out.warned ]
    /\ UNCHANGED << batch_vars, gpt_vars, defaults_vars, startup_vars, step_vars,
                    train_vars, pipeline_vars, scaling_vars, args_vars >>

DataNext == ReconfigureDatasetConstants

SpecData == DataInit /\ [][DataNext]_vars

---------------------------------------------------------------------------
(* train.py __main__: the option checks that precede set_defaults *)
(*                                                                         *)
(* batch_size and micro_batch_size are 0 when not given, amps is the       *)
(* length of --available-memory-proportion and pipeline_splits the number  *)
(* of --pipeline-splits strings.                                           *)

BothBatchSizes(o) == o.batch_size # 0 /\ o.micro_batch_size # 0

MemoryProportionMismatch(o) ==
    o.amps > 1 /\ (~o.pipeline \/ o.amps # o.shards * 2)

\* mutation: the check of --shards against --pipeline is missing
ShardsWithoutPipeline_Missing(o) == FALSE

\* line 1398
ShardsWithoutPipeline(o) == o.shards > 1 /\ o.pipeline = FALSE

\* line 1403
SplitsWithoutPipeline(o) == o.pipeline_splits > 1 /\ o.pipeline = FALSE

\* lines 1377-1404: the next position of __main__
CheckOptions(o) ==
    IF o.help THEN "help_printed"
    ELSE IF BothBatchSizes(o) THEN "raised"
    ELSE IF MemoryProportionMismatch(o) THEN "raised"
    ELSE IF ShardsWithoutPipeline(o) THEN "raised"
    ELSE IF SplitsWithoutPipeline(o) THEN "raised"
    ELSE "checked"

StartupInit ==
    /\ main \in [ pc : {"parsed"}, exc : {"NoException"}, graph_built : {FALSE},
                  help : BOOLEAN,
                  batch_size : {0, 4}, micro_batch_size : {0, 4},
                  amps : {0, 1, 2, 4},
                  pipeline : BOOLEAN,
                  shards : 1 .. MaxShards,
                  pipeline_splits : 0 .. 2 ]
    /\ BatchIdle /\ GptIdle /\ DataIdle /\ DefaultsIdle /\ StepIdle /\ TrainIdle
    /\ PipelineIdle /\ ScalingIdle /\ ArgsIdle

\* lines 1377-1404
MainChecks ==
    /\ main.pc = "parsed"
    /\ LET next == CheckOptions(main)
       IN  main' = [ main EXCEPT
                       !.pc = next,
                       !.exc = IF next = "raised" THEN "ValueError" ELSE "NoException",
                       !.micro_batch_size =
                           IF next = "checked" /\ main.batch_size # 0
                           THEN main.batch_size ELSE @ ]
    /\ UNCHANGED << batch_vars, gpt_vars, data_vars, defaults_vars, step_vars,
                    train_vars, pipeline_vars, scaling_vars, args_vars >>

\* lines 1406-1476: set_defaults, then train_process builds the training graph
MainTrain ==
    /\ main.pc = "checked"
    /\ main' = [ main EXCEPT !.pc = "training", !.graph_built = TRUE ]
    /\ UNCHANGED << batch_vars, gpt_vars, data_vars, defaults_vars, step_vars,
                    train_vars, pipeline_vars, scaling_vars, args_vars >>

StartupNext == MainChecks \/ MainTrain

SpecStartup == StartupInit /\ [][StartupNext]_vars

---------------------------------------------------------------------------
(* _train_process (vision/cnns/tensorflow1/training/train.py)              *)
(*                                                                         *)
(* One process per instance runs _train_process: a popdist run has the     *)
(* instances 0 .. MaxWorkerIndex, any other run the single instance 0 (the *)
(* TF_CONFIG cluster of --distributed is not modelled).  train_opts is the *)
(* opts dictionary every instance holds, logs_dir the set of files in      *)
(* opts['logs_path'], worker[w] the locals of instance w.  --iterations,   *)
(* --weight-avg-N / --weight-avg-exp and --init-path are not given.        *)
(*                                                                         *)
(* A file is [name, digits, suffix]: "ckpt-1000.index" is the file         *)
(* [name |-> "ckpt", digits |-> <<1, 0, 0, 0>>, suffix |-> "index"].       *)

\* --device-iterations default (line 1191)
DeviceIterationsDefault == 1000

\* root_rank of hvd.broadcast (lines 519, 521)
root_rank == 0

Instances(o) == IF o.use_popdist THEN 0 .. MaxWorkerIndex ELSE {0}

\* int(s) for a string of decimal digits
RECURSIVE DigitsToInt(_)
DigitsToInt(d) ==
    IF d = << >> THEN 0
    ELSE 10 * DigitsToInt(SubSeq(d, 1, Len(d) - 1)) + d[Len(d)]

\* str(n) for n >= 0, as the saver appends it to the checkpoint prefix
RECURSIVE IntToDigits(_)
IntToDigits(n) ==
    IF n < 10 THEN << n >> ELSE Append(IntToDigits(n \div 10), n % 10)

\* the files saver.save(session, checkpoint_path, global_step=n) writes
SavedFiles(n, write_meta_graph) ==
    { [ name |-> "ckpt", digits |-> IntToDigits(n), suffix |-> s ] :
        s \in (IF write_meta_graph THEN {"index", "data", "meta"}
               ELSE {"index", "data"}) }
    \cup { [ name |-> "checkpoint", digits |-> << >>, suffix |-> "" ] }

\* a log directory left by a run that saved the checkpoints of the steps S
LogsDirOf(S) ==
    UNION { SavedFiles(n, n = 0) : n \in S }
    \cup { [ name |-> "log", digits |-> << >>, suffix |-> "txt" ] }

RestorableSteps == {0, 2, MaxRestoredStep}

Listings == { S \in SUBSET RestorableSteps : Cardinality(S) <= 2 }

\* line 701: re.compile(r'(.*ckpt-(\d+)).index').match(name)
FilenamePattern(f) ==
    f.name = "ckpt" /\ Len(f.digits) >= 1 /\ f.suffix = "index"

\* lines 702-705: the (int(group(2)), path) tuples of the matching files
Tuples(listing) ==
    { [ step |-> DigitsToInt(f.digits), path |-> f.digits ] :
        f \in { g \in listing : FilenamePattern(g) } }

\* the rank of a digit string of at most four characters in text order
RECURSIVE TextRank(_, _)
TextRank(d, width) ==
    IF width = 0 \/ d = << >> THEN 0
    ELSE (d[1] + 1) * 11 ^ (width - 1) + TextRank(Tail(d), width - 1)

\* mutation: the checkpoints are ordered by the text of their step
SortKey_Text(t) == TextRank(t.path, 4)

\* line 706: key=lambda x: x[0]
SortKey(t) == t.step

\* line 706: sorted(tuples, key=...) as a sequence, smallest key first
RECURSIVE Sorted(_)
Sorted(T) ==
    IF T = {} THEN << >>
    ELSE LET last == CHOOSE t \in T : \A u \in T : SortKey(u) <= SortKey(t)
         IN  Append(Sorted(T \ {last}), last)

\* lines 615-669: the quantities derived from the options
NumImages(o) ==
    reconfigure_dataset_constants(InitialDatasetConstants, o.dataset,
                                  o.dataset_percentage_to_use).constants[o.dataset].NUM_IMAGES

\* line 623
IterationsPerEpoch(o) == PyFloorDiv(NumImages(o), o.global_batch_size)

\* line 633
Iterations(o) == PyFloorDiv(NumImages(o) * o.epochs, o.global_batch_size)

\* line 634, for logs_per_epoch # 0
LogFreq(o) == PyFloorDiv(IterationsPerEpoch(o), o.logs_per_epoch)

\* lines 641-644
StepIterations(o) == IterationsPerStep(LogFreq(o), o.device_iterations)

\* line 646
IterationsPerValid(o) == IterationsPerEpoch(o)

\* opts['ckpts_per_epoch'] is 1.0 / epochs_per_ckpt when --epochs-per-ckpt is
\* given (lines 1169-1170), else the integer of --ckpts-per-epoch
CkptsPerEpochSet(o) == o.epochs_per_ckpt # 0 \/ o.ckpts_per_epoch # 0

CkptsPerEpochIsOne(o) ==
    IF o.epochs_per_ckpt # 0 THEN o.epochs_per_ckpt = 1 ELSE o.ckpts_per_epoch = 1

\* lines 647-654, where checkpoints are enabled (np.inf otherwise)
IterationsPerCkpt(o) ==
    LET n == IF o.epochs_per_ckpt = 0
             THEN PyFloorDiv(IterationsPerEpoch(o), o.ckpts_per_epoch)
             ELSE IterationsPerEpoch(o) * o.epochs_per_ckpt
    IN  IF n = 0 THEN 1 ELSE n

\* lines 655-662; --epochs is a float, so isinstance(opts['epochs'], int) is
\* false and the offset is the one given
CkptOffset(o) == o.ckpt_epochs_offset * IterationsPerEpoch(o)

\* lines 664-666, where syncs are enabled (np.inf otherwise)
IterationsPerSync(o) == PyFloorDiv(IterationsPerEpoch(o), o.syncs_per_epoch)

\* lines 766-767
LoopIterations(o) == IF o.profile THEN StepIterations(o) ELSE Iterations(o)

\* mutation: the loop makes one more pass when i equals iterations
LoopContinues_Inclusive(o, i) == i <= LoopIterations(o)

\* line 788
LoopContinues(o, i) == i < LoopIterations(o)

\* round(epoch) for epoch = global_batch_size * n / NUM_IMAGES (lines 715, 789)
RoundEpoch(o, n) == PyRound(o.global_batch_size * n, NumImages(o))

\* mutation: the rule against early checkpoints also applies to the last pass
ckpt_this_step_EarlyOnLastPass(o, i) ==
    LET ips == StepIterations(o)
        off == CkptOffset(o)
        ipc == IterationsPerCkpt(o)
        due == /\ CkptsPerEpochSet(o)
               /\ i >= off - ips
               /\ \/ PyFloorDiv(i - off, ipc) < PyFloorDiv(i + ips - off, ipc)
                  \/ i + ips >= LoopIterations(o)
        early == /\ (o.epochs_per_ckpt # 0 \/ CkptsPerEpochIsOne(o))
                 /\ due
                 /\ RoundEpoch(o, i + ips) = o.epochs
    IN  due /\ ~early

\* lines 799-807
ckpt_this_step(o, i) ==
    LET ips == StepIterations(o)
        off == CkptOffset(o)
        ipc == IterationsPerCkpt(o)
        due == /\ CkptsPerEpochSet(o)
               /\ i >= off - ips
               /\ \/ PyFloorDiv(i - off, ipc) < PyFloorDiv(i + ips - off, ipc)
                  \/ i + ips >= LoopIterations(o)
        early == /\ (o.epochs_per_ckpt # 0 \/ CkptsPerEpochIsOne(o))
                 /\ due
                 /\ RoundEpoch(o, i + ips) = o.epochs
                 /\ i + ips < LoopIterations(o)
    IN  due /\ ~early

\* line 809
valid_this_step(o, i) == o.validation /\ ckpt_this_step(o, i)

\* lines 810-812
sync_this_step(o, i) ==
    /\ o.syncs_per_epoch # 0
    /\ PyFloorDiv(i, IterationsPerSync(o))
          < PyFloorDiv(i + StepIterations(o), IterationsPerSync(o))

\* line 742
SavesInitialCheckpoint(o, w) == CkptsPerEpochSet(o) /\ w = 0

\* mutation: every instance saves the checkpoints of the loop
SavesCheckpoint_AnyInstance(o, w, i) == ckpt_this_step(o, i)

\* line 877
SavesCheckpoint(o, w, i) ==
    ckpt_this_step(o, i) /\ (w = 0 \/ o.ckpt_all_instances)

\* mutation: no instance receives the value of the root
Broadcast_Local(values) == values

\* hvd.broadcast(iteration_ph, root_rank=0) run by every instance (lines 521,
\* 735-737): each instance receives the value fed by the root
Broadcast(values) == [ w \in DOMAIN values |-> values[root_rank] ]

\* lines 714-717: the steps of the checkpoints restored into ckpts
RestoredCkpts(filenames) ==
    LET steps == [ k \in 1 .. Len(filenames) |-> filenames[k].step ]
        NotInitial(j) == j # 0
    IN  SelectSeq(steps, NotInitial)

\* lines 719-726: the steps restored into validation_points
RestoredValidationPoints(o, filenames) ==
    LET steps == [ k \in 1 .. Len(filenames) |-> filenames[k].step ]
        ips == StepIterations(o)
        ipv == IterationsPerValid(o)
        Valid(j) ==
            /\ o.validation
            /\ \/ PyFloorDiv(j - ips, ipv) < PyFloorDiv(j, ipv)
               \/ j - ips = 0
               \/ j + ips >= Iterations(o)
    IN  SelectSeq(steps, Valid)

\* mutation: a failed training step is skipped and the loop goes on
OnOpError_Continue(w) == [ worker[w] EXCEPT !.op_errors = @ + 1 ]

\* lines 829-830: the OpError of the step is re-raised as ResourceExhaustedError,
\* which nothing in train_process (lines 598-611) catches
OnOpError(w) ==
    [ worker[w] EXCEPT !.pc = "aborted", !.exc = "ResourceExhaustedError",
                       !.op_errors = @ + 1 ]

Locals ==
    [ pc |-> "start", exc |-> "NoException", i |-> None, step |-> 0,
      listed |-> {}, restored |-> None, ckpts |-> << >>,
      validation_points |-> << >>, saved |-> {}, syncs |-> 0, trained |-> 0,
      op_errors |-> 0 ]

\* the combinations of --ckpts-per-epoch, --epochs-per-ckpt (which needs
\* --ckpts-per-epoch left at 1, line 1167) and --ckpt-epochs-offset modelled
CkptCadences ==
    { << 0, 0, 0 >>, << 1, 0, 0 >>, << 2, 0, 0 >>, << 1, 1, 0 >>, << 1, 2, 0 >>,
      << 1, 0, 1 >>, << 1, 0, MaxEpochs + 1 >> }

GlobalBatchSizes ==
    { PyFloorDiv(CifarNumImages, 2), PyFloorDiv(CifarNumImages, MaxIterationsPerEpoch) }

TrainInit ==
    /\ train_opts \in [ use_popdist : BOOLEAN,
                        restoring : BOOLEAN,
                        dataset : {"cifar-10"},
                        dataset_percentage_to_use : {100},
                        global_batch_size : GlobalBatchSizes,
                        epochs : 1 .. MaxEpochs,
                        logs_per_epoch : {1, 2, 8},
                        device_iterations : {DeviceIterationsDefault},
                        ckpts_per_epoch : {0, 1, 2},
                        epochs_per_ckpt : {0, 1, 2},
                        ckpt_epochs_offset : {0, 1, MaxEpochs + 1},
                        ckpt_all_instances : BOOLEAN,
                        syncs_per_epoch : {0, 1},
                        validation : {TRUE},
                        pipeline : {FALSE},
                        gradient_accumulation_count : {1},
                        compile_only : BOOLEAN,
                        profile : BOOLEAN ]
    /\ << train_opts.ckpts_per_epoch, train_opts.epochs_per_ckpt,
          train_opts.ckpt_epochs_offset >> \in CkptCadences
    \* line 1245: --syncs-per-epoch needs popdist
    /\ train_opts.syncs_per_epoch # 0 => train_opts.use_popdist
    /\ logs_dir \in IF train_opts.restoring
                    THEN { LogsDirOf(S) : S \in Listings }
                    ELSE { LogsDirOf({}) }
    /\ worker = [ w \in Instances(train_opts) |-> Locals ]
    /\ BatchIdle /\ GptIdle /\ DataIdle /\ DefaultsIdle /\ StartupIdle /\ StepIdle
    /\ PipelineIdle /\ ScalingIdle /\ ArgsIdle

\* lines 615-728: the options, the training graph, and the restore from disk
Setup(w) ==
    /\ worker[w].pc = "start"
    /\ LET o == train_opts
           filenames == Sorted(Tuples(logs_dir))
           latest_checkpoint == filenames[Len(filenames)]
       IN  worker' = [ worker EXCEPT ![w] =
             IF StepIterations(o) = 0
             THEN [ @ EXCEPT !.pc = "raised", !.exc = "ZeroDivisionError" ]
             ELSE IF ~o.restoring
             THEN [ @ EXCEPT !.pc = "ready", !.i = Some(0) ]
             ELSE IF w # 0
             THEN [ @ EXCEPT !.pc = IF o.use_popdist THEN "broadcast" ELSE "ready",
                             !.i = Some(0) ]
             ELSE IF filenames = << >>
             THEN [ @ EXCEPT !.pc = "raised", !.exc = "IndexError",
                             !.listed = logs_dir ]
             ELSE [ @ EXCEPT !.pc = IF o.use_popdist THEN "broadcast" ELSE "ready",
                             !.i = Some(latest_checkpoint.step),
                             !.listed = logs_dir,
                             !.restored = Some(latest_checkpoint.path),
                             !.ckpts = RestoredCkpts(filenames),
                             !.validation_points =
                                 RestoredValidationPoints(o, filenames) ] ]
    /\ UNCHANGED << train_opts, logs_dir >>
    /\ UNCHANGED << batch_vars, gpt_vars, data_vars, defaults_vars, startup_vars,
                    step_vars, pipeline_vars, scaling_vars, args_vars >>

\* lines 730-738: the collective every instance of a restored popdist run
\* enters; it completes when all of them have called it
BroadcastIteration ==
    /\ \A w \in DOMAIN worker : worker[w].pc = "broadcast"
    /\ LET received == Broadcast([ w \in DOMAIN worker |-> worker[w].i ])
       IN  worker' = [ w \in DOMAIN worker |->
                         [ worker[w] EXCEPT !.pc = "ready", !.i = received[w] ] ]
    /\ UNCHANGED << train_opts, logs_dir >>
    /\ UNCHANGED << batch_vars, gpt_vars, data_vars, defaults_vars, startup_vars,
                    step_vars, pipeline_vars, scaling_vars, args_vars >>

\* lines 742-787: the initial checkpoint and the warm-up step that compiles
\* the graph; an exception of the warm-up step is re-raised as it is
Compile(w) ==
    /\ worker[w].pc = "ready"
    /\ LET o == train_opts
           saves == SavesInitialCheckpoint(o, w)
       IN  /\ logs_dir' = IF saves THEN logs_dir \cup SavedFiles(0, TRUE) ELSE logs_dir
           /\ \E fails \in BOOLEAN :
                worker' = [ worker EXCEPT ![w] =
                  [ @ EXCEPT
                      !.saved = IF saves THEN @ \cup {0} ELSE @,
                      !.exc = IF fails THEN "OpError" ELSE @,
                      !.pc = IF fails THEN "raised"
                             ELSE IF o.compile_only THEN "exited"
                             ELSE IF LoopContinues(o, Val(worker[w].i)) THEN "loop"
                             ELSE "done" ] ]
    /\ UNCHANGED train_opts
    /\ UNCHANGED << batch_vars, gpt_vars, data_vars, defaults_vars, startup_vars,
                    step_vars, pipeline_vars, scaling_vars, args_vars >>

\* lines 788-915: one pass of the training loop; after the last pass the
\* process validates the collected points and closes the session (917-978)
TrainPass(w) ==
    /\ worker[w].pc = "loop"
    /\ LET o == train_opts
           i == Val(worker[w].i)
           next == i + StepIterations(o)
           counted == [ worker[w] EXCEPT
                          !.step = @ + (IF o.pipeline THEN 1
                                        ELSE o.gradient_accumulation_count) ]
           saves == SavesCheckpoint(o, w, i)
       IN  \/ /\ worker' = [ worker EXCEPT ![w] =
                   [ OnOpError(w) EXCEPT !.step = counted.step ] ]
              /\ UNCHANGED logs_dir
           \/ /\ worker' = [ worker EXCEPT ![w] =
                   [ counted EXCEPT
                       !.trained = @ + 1,
                       !.saved = IF saves THEN @ \cup {next} ELSE @,
                       !.ckpts = IF saves THEN Append(@, next) ELSE @,
                       !.syncs = IF sync_this_step(o, i) THEN @ + 1 ELSE @,
                       !.validation_points =
                           IF valid_this_step(o, i) /\ o.validation
                           THEN Append(@, next) ELSE @,
                       !.i = Some(next),
                       !.pc = IF LoopContinues(o, next) THEN "loop" ELSE "done" ] ]
              /\ logs_dir' = IF saves THEN logs_dir \cup SavedFiles(next, FALSE)
                             ELSE logs_dir
    /\ UNCHANGED train_opts
    /\ UNCHANGED << batch_vars, gpt_vars, data_vars, defaults_vars, startup_vars,
                    step_vars, pipeline_vars, scaling_vars, args_vars >>

TrainNext ==
    \/ \E w \in DOMAIN worker : Setup(w)
    \/ BroadcastIteration
    \/ \E w \in DOMAIN worker : Compile(w)
    \/ \E w \in DOMAIN worker : TrainPass(w)

SpecTrain == TrainInit /\ [][TrainNext]_vars

---------------------------------------------------------------------------
(* basic_pipelined_training_step (vision/cnns/tensorflow1/training/train.py) *)
(*                                                                         *)
(* pipe holds the options, the data_dict taken from the infeed, the number *)
(* of computational stages and the tensors one stage hands to the next.    *)
(* mixup_alpha and cutmix_lambda are in tenths.  The data_dict has the     *)
(* keys of the augmentations that are enabled; a tensor is modelled by a   *)
(* number that identifies it, and x by the number of model stages applied. *)

LabelValues == 1 .. MaxLabelValue

Mixup(o) == o.mixup_alpha > 0

Cutmix(o) == o.cutmix_lambda < 10

\* the keys the augmentations leave in data_dict besides image and label
AugmentationKeys(o) ==
    (IF Mixup(o) THEN {"label_mixed_up", "mixup_coefficients"} ELSE {})
    \cup (IF Cutmix(o) THEN {"cutmix_label", "cutmix_lambda"} ELSE {})
    \cup (IF Mixup(o) /\ Cutmix(o) THEN {"cutmix_label2", "mixup_coefficients_2"}
          ELSE {})

\* lines 318-323: the keys whose tensors first_stage appends, in order
PackedKeys(o) ==
    (IF Mixup(o) THEN << "label_mixed_up", "mixup_coefficients" >> ELSE << >>)
    \o (IF Cutmix(o) THEN << "cutmix_label", "cutmix_lambda" >> ELSE << >>)
    \o (IF Mixup(o) /\ Cutmix(o) THEN << "cutmix_label2", "mixup_coefficients_2" >>
        ELSE << >>)

\* mutation: the final stage takes the cutmix tensors before the mixup tensors
UnpackedKeys_CutmixFirst(o) ==
    (IF Cutmix(o) THEN << "cutmix_label", "cutmix_lambda" >> ELSE << >>)
    \o (IF Mixup(o) THEN << "label_mixed_up", "mixup_coefficients" >> ELSE << >>)
    \o (IF Cutmix(o) /\ Mixup(o) THEN << "cutmix_label2", "mixup_coefficients_2" >>
        ELSE << >>)

\* lines 333-338: the keys the final stage pops its inputs into, in order
UnpackedKeys(o) ==
    (IF Mixup(o) THEN << "label_mixed_up", "mixup_coefficients" >> ELSE << >>)
    \o (IF Cutmix(o) THEN << "cutmix_label", "cutmix_lambda" >> ELSE << >>)
    \o (IF Cutmix(o) /\ Mixup(o) THEN << "cutmix_label2", "mixup_coefficients_2" >>
        ELSE << >>)

\* lines 309-325: [learning_rate, pipeline_stage(image), label] + the extras
first_stage(o, learning_rate, data_dict) ==
    [ learning_rate |-> learning_rate,
      x |-> 1,
      label |-> data_dict["label"],
      inputs |-> [ k \in 1 .. Len(PackedKeys(o)) |-> data_dict[PackedKeys(o)[k]] ] ]

\* lines 327-331: a stage that is not the final one
later_stage(t) == [ t EXCEPT !.x = @ + 1 ]

\* lines 332-338: the data_dict the final stage builds with inputs.pop(0)
FinalDataDict(o, t) ==
    LET keys == UnpackedKeys(o)
    IN  [ name \in {"label"} \cup { keys[k] : k \in 1 .. Len(keys) } |->
            IF name = "label" THEN t.label
            ELSE t.inputs[CHOOSE k \in 1 .. Len(keys) : keys[k] = name] ]

PipelineInit ==
    /\ \E ma \in {0, 2}, cl \in {5, 10}, n \in 2 .. MaxStages :
         LET o == [ mixup_alpha |-> ma, cutmix_lambda |-> cl ]
         IN  \E d \in [ {"label"} \cup AugmentationKeys(o) -> LabelValues ] :
               pipe = [ mixup_alpha |-> ma, cutmix_lambda |-> cl, stages |-> n,
                        data_dict |-> d, done |-> 0, tensors |-> None,
                        final |-> None ]
    /\ BatchIdle /\ GptIdle /\ DataIdle /\ DefaultsIdle /\ StartupIdle /\ StepIdle
    /\ TrainIdle /\ ScalingIdle /\ ArgsIdle

\* computational_stages[0] (line 345)
FirstStage ==
    /\ pipe.done = 0
    /\ pipe' = [ pipe EXCEPT !.done = 1,
                             !.tensors = first_stage(pipe, 1, pipe.data_dict) ]
    /\ UNCHANGED << batch_vars, gpt_vars, data_vars, defaults_vars, startup_vars,
                    step_vars, train_vars, scaling_vars, args_vars >>

\* computational_stages[idx + 1] (lines 346-347); final_stage is
\* idx == len(model_stages) - 2
LaterStage ==
    /\ pipe.done >= 1 /\ pipe.done < pipe.stages
    /\ LET final_stage == pipe.done - 1 = pipe.stages - 2
           t == later_stage(pipe.tensors)
       IN  pipe' = [ pipe EXCEPT
                       !.done = @ + 1,
                       !.tensors = IF final_stage THEN None ELSE t,
                       !.final = IF final_stage THEN FinalDataDict(pipe, t) ELSE @ ]
    /\ UNCHANGED << batch_vars, gpt_vars, data_vars, defaults_vars, startup_vars,
                    step_vars, train_vars, scaling_vars, args_vars >>

PipelineNext == FirstStage \/ LaterStage

SpecPipeline == PipelineInit /\ [][PipelineNext]_vars

---------------------------------------------------------------------------
(* set_training_defaults (vision/cnns/tensorflow1/training/train.py)       *)
(*                                                                         *)
(* training is the opts dictionary with the position of the call.  The     *)
(* floats loss_scaling, lr_scale and grad_scale are whole numbers here;    *)
(* ckpts_per_epoch and syncs_per_epoch are fractions [num, den], since the *)
(* call may set them to 1.0 / epochs.  --abs-learning-rate and             *)
(* --rmsprop-base-decay-exp are not given.                                 *)

Optimisers == {"SGD", "RMSprop", "momentum", "LARS"}

LossScalings == 0 .. MaxLossScaling

Whole(n) == [ num |-> n, den |-> 1 ]

\* lines 1143, 1155, 1162
LrScale(o) == IF o.optimiser \in {"RMSprop", "LARS"} THEN 1 ELSE o.loss_scaling

\* mutation: the gradients are never scaled back
GradScale_One(o) == 1

\* lines 1144, 1156, 1163
GradScale(o) == IF o.optimiser \in {"RMSprop", "LARS"} THEN o.loss_scaling ELSE 1

\* lines 1164-1165
LarsWeightDecay(o) ==
    IF o.optimiser = "LARS" /\ o.lars_weight_decay = 0 THEN o.weight_decay
    ELSE o.lars_weight_decay

\* line 1167
CkptOptionsClash(o) == o.epochs_per_ckpt # 0 /\ o.ckpts_per_epoch # Whole(1)

\* line 1172
SyncOptionsClash(o) == o.epochs_per_sync # 0 /\ o.syncs_per_epoch.num # 0

set_training_defaults(o) ==
    LET o1 == [ o EXCEPT
                  !.global_batch_size =
                      Some(o.micro_batch_size * o.gradient_accumulation_count
                           * o.replicas * o.distributed_worker_count),
                  !.lr_scale = Some(LrScale(o)),
                  !.grad_scale = Some(GradScale(o)),
                  !.lars_weight_decay = LarsWeightDecay(o) ]
    IN  IF CkptOptionsClash(o1)
        THEN [ o1 EXCEPT !.pc = "raised", !.exc = "ValueError" ]
        ELSE LET o2 == [ o1 EXCEPT !.ckpts_per_epoch =
                           IF o1.epochs_per_ckpt # 0
                           THEN [ num |-> 1, den |-> o1.epochs_per_ckpt ] ELSE @ ]
             IN  IF SyncOptionsClash(o2)
                 THEN [ o2 EXCEPT !.pc = "raised", !.exc = "ValueError" ]
                 ELSE [ o2 EXCEPT !.pc = "returned",
                                  !.syncs_per_epoch =
                                      IF o2.epochs_per_sync # 0
                                      THEN [ num |-> 1, den |-> o2.epochs_per_sync ]
                                      ELSE @ ]

ScalingInit ==
    /\ training \in [ pc : {"parsed"}, exc : {"NoException"},
                      optimiser : Optimisers,
                      loss_scaling : LossScalings,
                      lr_scale : {None}, grad_scale : {None},
                      weight_decay : {1}, lars_weight_decay : {0, 2},
                      micro_batch_size : {4},
                      gradient_accumulation_count : {1, 2},
                      replicas : {1}, distributed_worker_count : {1},
                      global_batch_size : {None},
                      epochs_per_ckpt : {0, 1, 2},
                      ckpts_per_epoch : {Whole(1), Whole(2)},
                      epochs_per_sync : {0, 1},
                      syncs_per_epoch : {Whole(0), Whole(1)} ]
    /\ BatchIdle /\ GptIdle /\ DataIdle /\ DefaultsIdle /\ StartupIdle /\ StepIdle
    /\ TrainIdle /\ PipelineIdle /\ ArgsIdle

\* lines 1110-1175
SetTrainingDefaults ==
    /\ training.pc = "parsed"
    /\ training' = set_training_defaults(training)
    /\ UNCHANGED << batch_vars, gpt_vars, data_vars, defaults_vars, startup_vars,
                    step_vars, train_vars, pipeline_vars, args_vars >>

ScalingNext == SetTrainingDefaults

SpecScaling == ScalingInit /\ [][ScalingNext]_vars

---------------------------------------------------------------------------
(* args_from_params and parse_args of the conformer tests (test_utils.py) *)

\* the elements of the params list before conversion: str or int objects
Object(type, value) == [ type |-> type, value |-> value ]

\* str(p) of line 137; a Python str is modelled as a word of the command line
\* or a decimal numeral
str(p) ==
    IF p.type = "int" THEN [ word |-> "", digits |-> IntToDigits(p.value) ]
    ELSE [ word |-> p.value, digits |-> << >> ]

\* int(s) of an argparse option declared with type=int
int(s) == DigitsToInt(s.digits)

\* lines 57-100: the options the parser declares
StoreTrueOptions == {"--ipu", "--partial32", "--variable-input"}
IntOptions ==
    {"--input-size", "--target-size", "--num-classes", "--global-batch-size",
     "--logits-scale"}
Choices ==
    ("--precision" :> {"FLOAT", "FLOAT16"}) @@
    ("--reduction-type" :> {"mean", "sum", "none"})

Dest ==
    ("--ipu" :> "ipu") @@ ("--input-size" :> "input_size") @@
    ("--target-size" :> "target_size") @@ ("--precision" :> "precision") @@
    ("--partial32" :> "partial32") @@ ("--num-classes" :> "num_classes") @@
    ("--global-batch-size" :> "global_batch_size") @@
    ("--logits-scale" :> "logits_scale") @@
    ("--variable-input" :> "variable_input") @@
    ("--reduction-type" :> "reduction_type")

ParserDefaults ==
    [ ipu |-> FALSE, input_size |-> 334, target_size |-> 100,
      precision |-> "FLOAT16", partial32 |-> FALSE, num_classes |-> 5,
      global_batch_size |-> 24, logits_scale |-> 1,
      variable_input |-> FALSE, reduction_type |-> "mean" ]

Parsed(namespace) == [ exc |-> "NoException", namespace |-> namespace ]
ParserError == [ exc |-> "SystemExit", namespace |-> None ]

\* parser.parse_args(input_list) consuming the argument strings left to right
RECURSIVE ParseKnownArgs(_, _)
ParseKnownArgs(arg_strings, namespace) ==
    IF arg_strings = << >> THEN Parsed(namespace)
    ELSE LET option == Head(arg_strings).word
         IN  IF option \in StoreTrueOptions
             THEN ParseKnownArgs(Tail(arg_strings),
                                 [namespace EXCEPT ![Dest[option]] = TRUE])
             ELSE IF option \notin IntOptions \cup DOMAIN Choices
             THEN ParserError
             ELSE IF Len(arg_strings) < 2 THEN ParserError
             ELSE LET arg == arg_strings[2]
                      rest == SubSeq(arg_strings, 3, Len(arg_strings))
                  IN  IF option \in IntOptions
                      THEN IF arg.digits # << >>
                           THEN ParseKnownArgs(rest,
                                    [namespace EXCEPT ![Dest[option]] = int(arg)])
                           ELSE ParserError
                      ELSE IF arg.word \in Choices[option]
                           THEN ParseKnownArgs(rest,
                                    [namespace EXCEPT ![Dest[option]] = arg.word])
                           ELSE ParserError

\* lines 56-101
parse_args(input_list) == ParseKnownArgs(input_list, ParserDefaults)

ValueParam(option, value, type) ==
    IF value # None THEN << Object("str", option), Object(type, Val(value)) >>
    ELSE << >>

FlagParam(option, value) ==
    IF value # None THEN << Object("str", option) >> ELSE << >>

\* lines 116-135: the params list
ParamsOf(kw) ==
    ValueParam("--input-size", kw.input_size, "int")
    \o ValueParam("--target-size", kw.target_size, "int")
    \o ValueParam("--num-classes", kw.num_classes, "int")
    \o ValueParam("--global-batch-size", kw.global_batch_size, "int")
    \o ValueParam("--reduction-type", kw.reduction_type, "str")
    \o ValueParam("--precision", kw.precision, "str")
    \o FlagParam("--partial32", kw.partial32)
    \o FlagParam("--variable-input", kw.variable_input)
    \o FlagParam("--ipu", kw.ipu)

\* lines 104-137
args_from_params(kw) ==
    LET params == ParamsOf(kw)
    IN  parse_args([ i \in 1 .. Len(params) |-> str(params[i]) ])

\* the keyword arguments the tests pass
Keywords ==
    [ input_size : Optional({0, 7, MaxArgSize}),
      target_size : Optional({7}),
      num_classes : Optional({MaxArgSize}),
      global_batch_size : Optional({0}),
      reduction_type : Optional({"mean", "sum", "none", "max"}),
      precision : Optional({"FLOAT", "FLOAT16"}),
      variable_input : Optional(BOOLEAN),
      partial32 : Optional(BOOLEAN),
      ipu : Optional(BOOLEAN) ]

ArgsInit ==
    /\ parsed \in [ pc : {"called"}, kw : Keywords, result : {None} ]
    /\ BatchIdle /\ GptIdle /\ DataIdle /\ DefaultsIdle
    /\ StartupIdle /\ StepIdle /\ TrainIdle /\ PipelineIdle /\ ScalingIdle

ArgsFromParams ==
    /\ parsed.pc = "called"
    /\ LET result == args_from_params(parsed.kw)
       IN  parsed' = [ pc |-> IF result.exc = "NoException"
                              THEN "returned" ELSE "exited",
                       kw |-> parsed.kw,
                       result |-> result ]
    /\ UNCHANGED << batch_vars, gpt_vars, data_vars, defaults_vars, startup_vars,
                    step_vars, train_vars, pipeline_vars, scaling_vars >>

SpecArgs == ArgsInit /\ [][ArgsFromParams]_vars

---------------------------------------------------------------------------
(* Properties *)

Constructed == pc = "constructed"

Attempted == pc # "start"

ArgMicro == init_args.micro_batch_size

ArgReplicas == init_args.num_replicas

ArgAccumulation == init_args.gradient_accumulation_count

ArgGlobal == init_args.global_batch_size

NoConfig ==
    /\ pc = "raised"
    /\ exception \in {"ValueError", "AssertionError"}
    /\ micro_batch_size = None
    /\ num_replicas = None
    /\ gradient_accumulation_count = None
    /\ global_batch_size = None
    /\ num_micro_batches_per_weight_update = None

GlobalSuppliedDivisible ==
    /\ ArgGlobal # None
    /\ Val(ArgGlobal) % (ArgMicro * ArgReplicas) = 0

GlobalSuppliedIndivisible ==
    /\ ArgGlobal # None
    /\ Val(ArgGlobal) % (ArgMicro * ArgReplicas) # 0

\* C1: every successfully constructed BatchConfig satisfies
\* global_batch_size = micro_batch_size * num_replicas * gradient_accumulation_count,
\* whichever of the two quantities was supplied and whether or not rounding occurred.
C1_ProductInvariant ==
    Constructed =>
        Val(global_batch_size) =
            Val(micro_batch_size) * Val(num_replicas) * Val(gradient_accumulation_count)

\* a configuration resolved on the rounding path with more than one replica
C1_Witness ==
    /\ Constructed
    /\ warnings = 1
    /\ Val(num_replicas) = 2
    /\ Val(gradient_accumulation_count) > 0
    /\ global_batch_size # ArgGlobal

\* C2: construction with both gradient_accumulation_count and global_batch_size
\* supplied, or with neither supplied, raises (ValueError once the two leading
\* assertions have passed) and no resolved configuration is produced.
C2_ExactlyOneRequired ==
    (Attempted /\ (ArgAccumulation = None <=> ArgGlobal = None)) =>
        /\ NoConfig
        /\ (ArgMicro > 0 /\ ArgReplicas > 0) => exception = "ValueError"

\* both supplied, every value positive and mutually consistent, still rejected
C2_Witness ==
    /\ Attempted
    /\ ArgMicro = 2 /\ ArgReplicas = 2
    /\ ArgAccumulation = Some(2) /\ ArgGlobal = Some(8)
    /\ pc = "raised" /\ exception = "ValueError"

\* C3: construction raises whenever micro_batch_size <= 0, num_replicas <= 0,
\* a supplied gradient_accumulation_count <= 0 or a supplied global_batch_size <= 0.
C3_NonPositiveRejected ==
    (/\ Attempted
     /\ \/ ArgMicro <= 0
        \/ ArgReplicas <= 0
        \/ (ArgAccumulation # None /\ Val(ArgAccumulation) <= 0)
        \/ (ArgGlobal # None /\ Val(ArgGlobal) <= 0)) => NoConfig

\* the only defect of the arguments is a supplied accumulation count of zero
C3_Witness ==
    /\ Attempted
    /\ ArgMicro > 0 /\ ArgReplicas > 0
    /\ ArgAccumulation = Some(0) /\ ArgGlobal = None
    /\ pc = "raised" /\ exception = "AssertionError"

\* C4: for positive micro_batch_size, num_replicas and gradient_accumulation_count,
\* construction with the accumulation count supplied succeeds, keeps the supplied
\* count, sets global_batch_size to the exact product and emits no rounding warning.
C4_AccumulationPathExact ==
    (/\ Attempted
     /\ ArgMicro > 0 /\ ArgReplicas > 0
     /\ ArgAccumulation # None /\ Val(ArgAccumulation) > 0
     /\ ArgGlobal = None) =>
        /\ Constructed
        /\ gradient_accumulation_count = ArgAccumulation
        /\ Val(global_batch_size) = ArgMicro * ArgReplicas * Val(ArgAccumulation)
        /\ warnings = 0

C4_Witness ==
    /\ Constructed
    /\ ArgMicro = 3 /\ ArgReplicas = 2
    /\ ArgAccumulation = Some(3) /\ ArgGlobal = None
    /\ global_batch_size = Some(18)

\* C5: when global_batch_size is supplied and is a multiple of
\* micro_batch_size * num_replicas, gradient_accumulation_count is the exact
\* quotient, global_batch_size keeps the supplied value and no warning is emitted;
\* 4, 2, 32 resolves to gradient_accumulation_count = 4.
C5_DivisibleExactQuotient ==
    /\ (Constructed /\ GlobalSuppliedDivisible) =>
          /\ Val(gradient_accumulation_count) * (ArgMicro * ArgReplicas) = Val(ArgGlobal)
          /\ global_batch_size = ArgGlobal
          /\ warnings = 0
    /\ (Attempted /\ ArgMicro = 4 /\ ArgReplicas = 2
          /\ ArgAccumulation = None /\ ArgGlobal = Some(32)) =>
          /\ Constructed
          /\ gradient_accumulation_count = Some(4)
          /\ warnings = 0

C5_Witness ==
    /\ Constructed
    /\ ArgMicro = 4 /\ ArgReplicas = 2
    /\ ArgAccumulation = None /\ ArgGlobal = Some(32)
    /\ gradient_accumulation_count = Some(4)

\* C6: when global_batch_size is supplied and is not a multiple of
\* m = micro_batch_size * num_replicas, gradient_accumulation_count is an integer
\* within 1/2 of the real quotient supplied / m, global_batch_size becomes
\* m * gradient_accumulation_count, and the warning is emitted in exactly this case;
\* 4, 2, 33 resolves to gradient_accumulation_count = 4 and global_batch_size = 32.
C6_IndivisibleRoundedNearest ==
    /\ (Constructed /\ GlobalSuppliedIndivisible) =>
          LET m == ArgMicro * ArgReplicas
              twiceError == 2 * Val(gradient_accumulation_count) * m - 2 * Val(ArgGlobal)
          IN  /\ twiceError <= m
              /\ 0 - twiceError <= m
              /\ Val(global_batch_size) = m * Val(gradient_accumulation_count)
    /\ Constructed => (warnings = 1 <=> GlobalSuppliedIndivisible)
    /\ (Attempted /\ ArgMicro = 4 /\ ArgReplicas = 2
          /\ ArgAccumulation = None /\ ArgGlobal = Some(33)) =>
          /\ Constructed
          /\ gradient_accumulation_count = Some(4)
          /\ global_batch_size = Some(32)
          /\ warnings = 1

C6_Witness ==
    /\ Constructed
    /\ ArgMicro = 4 /\ ArgReplicas = 2
    /\ ArgAccumulation = None /\ ArgGlobal = Some(33)
    /\ gradient_accumulation_count = Some(4)
    /\ global_batch_size = Some(32)
    /\ warnings = 1

\* C7: after every successful construction the resolved
\* gradient_accumulation_count and global_batch_size are both at least 1, also
\* when the supplied global_batch_size is below micro_batch_size * num_replicas.
C7_ResolvedPositive ==
    Constructed =>
        /\ Val(gradient_accumulation_count) >= 1
        /\ Val(global_batch_size) >= 1

\* C8: after every successful construction
\* num_micro_batches_per_weight_update = gradient_accumulation_count * num_replicas
\* for the resolved accumulation count, hence
\* global_batch_size = micro_batch_size * num_micro_batches_per_weight_update.
C8_WeightUpdateMicroBatches ==
    Constructed =>
        /\ Val(num_micro_batches_per_weight_update) =
               Val(gradient_accumulation_count) * Val(num_replicas)
        /\ Val(global_batch_size) =
               Val(micro_batch_size) * Val(num_micro_batches_per_weight_update)

\* the derived field after a rounded accumulation count, with two replicas
C8_Witness ==
    /\ Constructed
    /\ warnings = 1
    /\ Val(num_replicas) = 2
    /\ gradient_accumulation_count = Some(3)
    /\ num_micro_batches_per_weight_update = Some(6)

\* C9: for dataset_size >= 0 and 1 <= num_instances <= global_batch_size,
\* get_num_discarded_samples returns
\* dataset_size % (global_batch_size // num_instances), a value in
\* 0 .. (global_batch_size // num_instances) - 1.
C9_DiscardedSamples ==
    (/\ call.op = "get_num_discarded_samples"
     /\ call.args[1] >= 0
     /\ 1 <= call.args[2]
     /\ call.args[2] <= Val(global_batch_size)) =>
        LET per == Val(global_batch_size) \div call.args[2]
        IN  /\ call.exc = "NoException"
            /\ Val(call.ret) = call.args[1] % per
            /\ Val(call.ret) \in 0 .. (per - 1)

\* a call with several instances on a dataset larger than the per-instance batch
C9_Witness ==
    /\ call.op = "get_num_discarded_samples"
    /\ call.args[2] = 2
    /\ Val(global_batch_size) = 6
    /\ call.args[1] = 8
    /\ call.ret = Some(2)

\* C10: for every constructed BatchConfig and dataset_size >= 0,
\* get_num_micro_batches_per_epoch returns
\* floor(dataset_size / global_batch_size) * num_micro_batches_per_weight_update:
\* a multiple of num_micro_batches_per_weight_update whose samples fit in the
\* dataset, while one more weight update's worth would not.
C10_MicroBatchesPerEpoch ==
    (call.op = "get_num_micro_batches_per_epoch" /\ call.args[1] >= 0) =>
        LET nmb == Val(num_micro_batches_per_weight_update)
        IN  /\ call.exc = "NoException"
            /\ Val(global_batch_size) # 0
            /\ Val(call.ret) = (call.args[1] \div Val(global_batch_size)) * nmb
            /\ Val(call.ret) * Val(micro_batch_size) <= call.args[1]
            /\ (Val(call.ret) + nmb) * Val(micro_batch_size) > call.args[1]

\* C11: once a BatchConfig is constructed its five fields never change: every
\* call of get_num_micro_batches_per_epoch, get_num_discarded_samples and
\* get_num_padding_samples leaves them as they were, and an attempted field
\* assignment is rejected with FrozenInstanceError.
C11_FieldsImmutable ==
    [][Constructed =>
          /\ fields' = fields
          /\ pc' = "constructed"
          /\ (call'.op = "__setattr__" /\ call' # call) =>
                 call'.exc = "FrozenInstanceError"]_vars

\* a rejected assignment to a resolved field of a constructed configuration
C11_Witness ==
    /\ Constructed
    /\ call.op = "__setattr__"
    /\ call.args = << "global_batch_size", 0 >>
    /\ call.exc = "FrozenInstanceError"
    /\ Val(global_batch_size) = 32

\* C15: GPTConfig.gradient_accumulation never rounds: when
\* training.global_batch_size is a multiple of
\* execution.data_parallel * execution.micro_batch_size it returns the exact
\* quotient, so gradient_accumulation * data_parallel * micro_batch_size equals
\* global_batch_size; otherwise it raises RuntimeError and returns no value.
C15_GradientAccumulationExact ==
    gpt.pc = "read" =>
        LET denom == gpt.data_parallel * gpt.micro_batch_size
        IN  IF gpt.global_batch_size % denom = 0
            THEN /\ gpt.exc = "NoException"
                 /\ Val(gpt.ret) * denom = gpt.global_batch_size
            ELSE /\ gpt.exc = "RuntimeError"
                 /\ gpt.ret = None

\* a global batch size the replicas and micro batches do not divide
C15_Witness ==
    /\ gpt.pc = "read"
    /\ gpt.global_batch_size = 33
    /\ gpt.data_parallel = 2
    /\ gpt.micro_batch_size = 4
    /\ gpt.exc = "RuntimeError"

\* C18: device_iterations is the maximum number of batches per step: for every
\* log_freq >= 1 and device_iterations >= 1 the iterations_per_step computed by
\* _train_process satisfies 1 <= iterations_per_step <= device_iterations.
C18_StepWithinDeviceIterations ==
    (calc.pc = "computed" /\ calc.log_freq >= 1 /\ calc.device_iterations >= 1) =>
        /\ 1 <= Val(calc.iterations_per_step)
        /\ Val(calc.iterations_per_step) <= calc.device_iterations

\* C20: after Datasets.data.set_defaults returns, host-side normalisation is
\* never enabled together with 8-bit IO or with fused preprocessing:
\* hostside_norm is false whenever eight_bit_io or fused_preprocessing is true,
\* for every combination of the input flags.
C20_HostNormExcluded ==
    set_defaults_result.pc = "returned" =>
        ((opts.eight_bit_io \/ opts.fused_preprocessing) => ~opts.hostside_norm)

\* host-side normalisation was requested together with fused preprocessing on
\* imagenet and has been switched off
C20_Witness ==
    /\ set_defaults_result.pc = "returned"
    /\ Val(set_defaults_result.given).hostside_norm
    /\ Val(set_defaults_result.given).fused_preprocessing
    /\ ~Val(set_defaults_result.given).eight_bit_io
    /\ opts.fused_preprocessing
    /\ ~opts.hostside_norm

\* C19: the imagenet reduction happens at most once per process: a call
\* changes imagenet NUM_IMAGES only from the unscaled value, to
\* pct * UNSCALED_NUM_IMAGES // 100 for that call's pct; once it is reduced,
\* later calls leave NUM_IMAGES and the TRAIN/TEST file lists unchanged;
\* UNSCALED_NUM_IMAGES never changes once set, and the cifar entries are never
\* reduced.
C19_ReducedAtMostOnce ==
    [][LET before == DATASET_CONSTANTS["imagenet"]
           after == DATASET_CONSTANTS'["imagenet"]
       IN  /\ after.UNSCALED_NUM_IMAGES = Some(ImagenetNumImages)
           /\ before.NUM_IMAGES # ImagenetNumImages =>
                  /\ after.NUM_IMAGES = before.NUM_IMAGES
                  /\ after.TRAIN = before.TRAIN
                  /\ after.TEST = before.TEST
           /\ after.NUM_IMAGES # before.NUM_IMAGES =>
                  /\ before.NUM_IMAGES = ImagenetNumImages
                  /\ after.NUM_IMAGES = (data_call'.pct * ImagenetNumImages) \div 100
           /\ \A ds \in {"cifar-10", "cifar-100"} :
                  /\ DATASET_CONSTANTS'[ds].NUM_IMAGES = CifarNumImages
                  /\ DATASET_CONSTANTS'[ds].UNSCALED_NUM_IMAGES = Some(CifarNumImages)
                  /\ DATASET_CONSTANTS'[ds].TRAIN = DATASET_CONSTANTS[ds].TRAIN
                  /\ DATASET_CONSTANTS'[ds].TEST = DATASET_CONSTANTS[ds].TEST
      ]_vars

\* a second reducing call, with another percentage, was skipped with a warning
C19_Witness ==
    /\ data_call.warned
    /\ data_call.pct = 1
    /\ DATASET_CONSTANTS["imagenet"].NUM_IMAGES = (99 * ImagenetNumImages) \div 100
    /\ DATASET_CONSTANTS["imagenet"].TRAIN = (99 * ImagenetTrainFiles) \div 100

AtLoopStart(w) == worker[w].i # None /\ worker[w].trained = 0

\* the global steps of the files named ckpt-<N>.index that instance 0 listed
ListedSteps ==
    { DigitsToInt(f.digits) :
        f \in { g \in worker[0].listed :
                  g.name = "ckpt" /\ g.suffix = "index" /\ g.digits # << >> } }

\* C12: when a run is restored, worker 0 resumes from the latest checkpoint:
\* among the files of the log directory named ckpt-<N>.index it restores the
\* one with the numerically largest global step N (ckpt-10 is later than
\* ckpt-2) and the training loop starts with iteration counter i = N.
C12_ResumesFromLatest ==
    (train_opts.restoring /\ AtLoopStart(0)) =>
        /\ Val(worker[0].i) \in ListedSteps
        /\ \A n \in ListedSteps : n <= Val(worker[0].i)
        /\ worker[0].restored = Some(IntToDigits(Val(worker[0].i)))

\* the directory held ckpt-2.index and ckpt-10.index, and worker 0 is about to
\* compile with i = 10, restored from ckpt-10
C12_Witness ==
    /\ train_opts.restoring
    /\ worker[0].pc = "ready"
    /\ ListedSteps = {2, MaxRestoredStep}
    /\ worker[0].i = Some(MaxRestoredStep)
    /\ worker[0].restored = Some(IntToDigits(MaxRestoredStep))

\* C17: after a restore in a popdist run, every instance enters the training
\* loop with the same iteration counter: instance 0 reads the latest checkpoint
\* step from disk, the other instances start from 0 locally, and the broadcast
\* from rank 0 makes each instance's i equal to instance 0's restored step
\* before the first training step.
C17_SameIterationAfterRestore ==
    (train_opts.restoring /\ train_opts.use_popdist) =>
        \A w \in DOMAIN worker :
            /\ (worker[w].pc = "broadcast" /\ w # 0) => worker[w].i = Some(0)
            /\ (worker[w].pc = "broadcast" /\ w = 0) =>
                  worker[w].i = Some(DigitsToInt(Val(worker[0].restored)))
            /\ (worker[w].pc \notin {"start", "broadcast"} /\ AtLoopStart(w)) =>
                  worker[w].i = Some(DigitsToInt(Val(worker[0].restored)))

\* instance 1 is at the head of the loop with the step 2 that instance 0
\* restored from ckpt-2
C17_Witness ==
    /\ train_opts.restoring /\ train_opts.use_popdist
    /\ worker[0].restored = Some(<< 2 >>)
    /\ worker[1].pc = "loop"
    /\ worker[1].trained = 0
    /\ worker[1].i = Some(2)

\* C16: only instance 0 writes checkpoints to disk: in any run with
\* ckpt_all_instances false, a worker whose distributed_worker_index is not 0
\* never saves a checkpoint, neither the initial step-0 checkpoint nor any
\* checkpoint inside the training loop.
C16_OnlyInstanceZeroSaves ==
    ~train_opts.ckpt_all_instances =>
        \A w \in DOMAIN worker : w # 0 => worker[w].saved = {}

\* both instances finished a run with checkpoints enabled: instance 0 saved
\* the initial checkpoint and one in the loop, instance 1 none
C16_Witness ==
    /\ ~train_opts.ckpt_all_instances
    /\ train_opts.use_popdist
    /\ train_opts.ckpts_per_epoch = 1
    /\ worker[0].pc = "done" /\ worker[1].pc = "done"
    /\ worker[1].trained >= 1
    /\ 0 \in worker[0].saved
    /\ Val(worker[0].i) \in worker[0].saved
    /\ worker[1].saved = {}

\* C14: if a training step inside the training loop raises a runtime OpError,
\* it is re-raised as a resource-exhaustion error and the run aborts: the
\* failed step is not retried, and no further training step, checkpoint save,
\* weight sync or validation point is performed after the failure.
C14_OpErrorAborts ==
    [][ \A w \in DOMAIN worker :
          /\ worker[w].op_errors < worker'[w].op_errors =>
                /\ worker'[w].pc = "aborted"
                /\ worker'[w].exc = "ResourceExhaustedError"
                /\ worker'[w].i = worker[w].i
                /\ worker'[w].trained = worker[w].trained
                /\ worker'[w].saved = worker[w].saved
                /\ worker'[w].syncs = worker[w].syncs
                /\ worker'[w].validation_points = worker[w].validation_points
          /\ worker[w].pc = "aborted" => worker'[w] = worker[w] ]_vars

\* the second training step of instance 0 failed: the run is aborted with one
\* step trained and the iteration counter short of the end
C14_Witness ==
    /\ worker[0].pc = "aborted"
    /\ worker[0].exc = "ResourceExhaustedError"
    /\ worker[0].op_errors = 1
    /\ worker[0].trained = 1
    /\ Val(worker[0].i) < LoopIterations(train_opts)

\* C21: in the pipelined training step the extra label tensors are unpacked by
\* the final stage in the order the first stage packed them: for each of the
\* four combinations of mixup and cutmix the final stage's data_dict maps
\* label_mixed_up, mixup_coefficients, cutmix_label, cutmix_lambda,
\* cutmix_label2 and mixup_coefficients_2 to exactly the values the first stage
\* emitted under those names, and intermediate stages pass them through
\* unchanged and in order.
C21_LabelsUnpackedAsPacked ==
    /\ (pipe.done >= 1 /\ pipe.done < pipe.stages) =>
          /\ pipe.tensors.label = pipe.data_dict["label"]
          /\ pipe.tensors.inputs =
               (IF pipe.mixup_alpha > 0
                THEN << pipe.data_dict["label_mixed_up"],
                        pipe.data_dict["mixup_coefficients"] >> ELSE << >>)
               \o (IF pipe.cutmix_lambda < 10
                   THEN << pipe.data_dict["cutmix_label"],
                           pipe.data_dict["cutmix_lambda"] >> ELSE << >>)
               \o (IF pipe.mixup_alpha > 0 /\ pipe.cutmix_lambda < 10
                   THEN << pipe.data_dict["cutmix_label2"],
                           pipe.data_dict["mixup_coefficients_2"] >> ELSE << >>)
    /\ pipe.done = pipe.stages =>
          /\ DOMAIN pipe.final = DOMAIN pipe.data_dict
          /\ \A name \in DOMAIN pipe.data_dict :
                pipe.final[name] = pipe.data_dict[name]

\* mixup and cutmix are both applied, the pipeline has an intermediate stage,
\* and the final stage has unpacked six tensors that are not all the same
C21_Witness ==
    /\ pipe.mixup_alpha > 0 /\ pipe.cutmix_lambda < 10
    /\ pipe.stages = 3 /\ pipe.done = 3
    /\ pipe.final["label_mixed_up"] = 1 /\ pipe.final["cutmix_label"] = 2
    /\ pipe.final["mixup_coefficients"] = 2 /\ pipe.final["cutmix_lambda"] = 1
    /\ pipe.final["cutmix_label2"] = 1 /\ pipe.final["mixup_coefficients_2"] = 2

\* C22: after set_training_defaults, loss scaling is compensated exactly once:
\* lr_scale == loss_scaling and grad_scale == 1 when the optimiser is SGD or
\* momentum, and lr_scale == 1 and grad_scale == loss_scaling when the
\* optimiser is RMSprop or LARS, so lr_scale * grad_scale == loss_scaling for
\* every optimiser choice.
C22_LossScalingCompensatedOnce ==
    training.pc # "parsed" =>
        /\ training.optimiser \in {"SGD", "momentum"} =>
              /\ training.lr_scale = Some(training.loss_scaling)
              /\ training.grad_scale = Some(1)
        /\ training.optimiser \in {"RMSprop", "LARS"} =>
              /\ training.lr_scale = Some(1)
              /\ training.grad_scale = Some(training.loss_scaling)
        /\ Val(training.lr_scale) * Val(training.grad_scale) = training.loss_scaling

\* the call returned for the LARS optimiser with a loss scaling above 1
C22_Witness ==
    /\ training.pc = "returned"
    /\ training.optimiser = "LARS"
    /\ training.loss_scaling = MaxLossScaling
    /\ training.lr_scale = Some(1)
    /\ training.grad_scale = Some(MaxLossScaling)

\* the instance has reached the training loop
LoopReached(w) == worker[w].pc \in {"loop", "done", "aborted"}

\* i0: the iteration the loop of the run starts from, 0 or the restored step
StartIteration ==
    IF train_opts.restoring THEN DigitsToInt(Val(worker[0].restored)) ELSE 0

\* ceil(a / b) for b > 0
Ceil(a, b) == 0 - ((0 - a) \div b)

C24_LastPassCheckpointed ==
    (train_opts.ckpts_per_epoch # 0 /\ worker[0].pc = "done"
       /\ worker[0].trained >= 1) =>
        /\ Val(worker[0].i) \in worker[0].saved
        /\ [ name |-> "ckpt", digits |-> IntToDigits(Val(worker[0].i)),
             suffix |-> "index" ] \in logs_dir

\* C24 (amended): when checkpointing is enabled and the last pass is not
\* before the checkpoint offset (i >= ckpt_offset - iterations_per_step, which
\* always holds for the default --ckpt-epochs-offset 0), the last pass saves a
\* checkpoint on worker 0 with global step i + iterations_per_step; the 'avoid
\* early checkpointing' rule never suppresses that last checkpoint.
C24_LastPassCheckpointedFromOffset ==
    (train_opts.ckpts_per_epoch # 0 /\ worker[0].pc = "done"
       /\ worker[0].trained >= 1
       /\ Val(worker[0].i) >= CkptOffset(train_opts)) =>
        /\ Val(worker[0].i) \in worker[0].saved
        /\ [ name |-> "ckpt", digits |-> IntToDigits(Val(worker[0].i)),
             suffix |-> "index" ] \in logs_dir

\* one checkpoint per epoch, one epoch of 5 iterations in passes of 2: the
\* last pass ends in the final epoch and its checkpoint, step 6, is saved
C24_Witness ==
    /\ train_opts.ckpts_per_epoch = 1 /\ train_opts.epochs_per_ckpt = 0
    /\ train_opts.ckpt_epochs_offset = 0
    /\ train_opts.epochs = 1 /\ ~train_opts.profile
    /\ worker[0].pc = "done"
    /\ worker[0].trained = 3
    /\ worker[0].i = Some(6)
    /\ RoundEpoch(train_opts, 6) = train_opts.epochs
    /\ worker[0].saved = {0, 6}

\* C25: for get_num_discarded_samples and get_num_padding_samples used together
\* with 1 <= num_instances <= global_batch_size: with
\* d = get_num_discarded_samples(dataset_size, num_instances) and
\* p = get_num_padding_samples(d, num_instances), p is 0 exactly when d is 0,
\* 0 <= p < global_batch_size // num_instances, and (dataset_size + p) is a
\* whole multiple of the per-instance batch size.
C25_PaddingCompletesBatch ==
    (/\ call.op = "get_num_discarded_then_padding"
     /\ 1 <= call.args[2]
     /\ call.args[2] <= Val(global_batch_size)) =>
        LET per == Val(global_batch_size) \div call.args[2]
            d == call.ret[1]
            p == call.ret[2]
        IN  /\ call.exc = "NoException"
            /\ (p = 0) <=> (d = 0)
            /\ 0 <= p /\ p < per
            /\ \E k \in 0 .. (call.args[1] + per) : call.args[1] + p = k * per

\* 7 samples with a per-instance batch of 3: one is discarded, two are padded
C25_Witness ==
    /\ call.op = "get_num_discarded_then_padding"
    /\ Val(global_batch_size) = 6
    /\ call.args = << 7, 2 >>
    /\ call.ret = << 1, 2 >>

KeywordNames == DOMAIN ParserDefaults \ {"logits_scale"}

\* C26: args_from_params round-trips its arguments: every parameter passed
\* with a non-None value has that value in the returned namespace and every
\* parameter left as None has the parser default; in particular
\* partial32=False, variable_input=False or ipu=False yield a namespace in
\* which that flag is False.
C26_ArgsRoundTrip ==
    parsed # Idle /\ parsed.pc = "returned" =>
        \A name \in KeywordNames :
            parsed.result.namespace[name] =
                IF parsed.kw[name] # None THEN Val(parsed.kw[name])
                ELSE ParserDefaults[name]

===========================================================================
